---- MODULE Spec2Model ----
(***************************************************************************)
(* Growth Momentum DCA strategy (src/strategy.py).                         *)
(*                                                                         *)
(* Prices are integers; every derived quantity (means, RS, RSI) is an      *)
(* exact rational <<numerator, denominator>> in lowest terms with a        *)
(* positive denominator.  The binary floating point rounding of numpy is   *)
(* not modelled.                                                           *)
(***************************************************************************)
EXTENDS Integers, Sequences, FiniteSets, TLC

(* ---------------- configuration (strategy.py:20-25) -------------------- *)
SYMBOLS == <<"NVDA", "TSLA", "AMD", "QBTS", "RKLB">>
DCA_AMOUNT == 100
SMA_PERIOD == 20
RSI_PERIOD == 14
RSI_THRESHOLD == 75
VIX_THRESHOLD == 25

(* ---------------- bounds of the model ---------------------------------- *)
\* closes are drawn from 1..MaxClose
MaxClose == 4
\* free sequences handed to the indicators have at most MaxLen closes
MaxLen == 4
\* indicator periods are drawn from 1..MaxPeriod
MaxPeriod == 3
\* a fetched series is a flat lead followed by at most MaxTail free closes
MaxTail == 2

(* ---------------- exact rational arithmetic ---------------------------- *)
Abs(x) == IF x < 0 THEN -x ELSE x

RECURSIVE Gcd(_, _)
Gcd(a, b) == IF b = 0 THEN a ELSE Gcd(b, a % b)

\* n/d in lowest terms, d # 0
Frac(n, d) ==
    LET g == Gcd(Abs(n), Abs(d))
        s == IF d < 0 THEN -1 ELSE 1
    IN  <<(s * n) \div g, (s * d) \div g>>

Rat(n) == <<n, 1>>
RAdd(x, y) == Frac(x[1] * y[2] + y[1] * x[2], x[2] * y[2])
RSub(x, y) == Frac(x[1] * y[2] - y[1] * x[2], x[2] * y[2])
RDiv(x, y) == Frac(x[1] * y[2], x[2] * y[1])
RLt(x, y) == x[1] * y[2] < y[1] * x[2]
RLe(x, y) == x[1] * y[2] <= y[1] * x[2]

(* ---------------- numpy / list helpers --------------------------------- *)
RECURSIVE Sum(_)
Sum(s) == IF s = <<>> THEN 0 ELSE s[1] + Sum(Tail(s))

\* s[-n:] for n >= 1
LastN(s, n) ==
    IF Len(s) <= n THEN s ELSE SubSeq(s, Len(s) - n + 1, Len(s))

\* np.diff
Diff(s) == [i \in 1..(Len(s) - 1) |-> s[i + 1] - s[i]]

\* np.mean of a non-empty sequence
Mean(s) == Frac(Sum(s), Len(s))

(* ---------------- Indicator library ------------------------------------ *)
\* seeded fault: the insufficient-data test is off by one (len(prices) < period)
calculate_rsi_short(prices, period) ==
    IF Len(prices) < period
    THEN Rat(50)
    ELSE LET deltas == Diff(prices)
             gains == [i \in DOMAIN deltas |-> IF deltas[i] > 0 THEN deltas[i] ELSE 0]
             losses == [i \in DOMAIN deltas |-> IF deltas[i] < 0 THEN -deltas[i] ELSE 0]
             avg_gain == IF gains = <<>> THEN Rat(0) ELSE Mean(LastN(gains, period))
             avg_loss == IF losses = <<>> THEN Rat(0) ELSE Mean(LastN(losses, period))
         IN  IF avg_loss = Rat(0)
             THEN Rat(100)
             ELSE LET rs == RDiv(avg_gain, avg_loss)
                  IN  RSub(Rat(100), RDiv(Rat(100), RAdd(Rat(1), rs)))

calculate_rsi(prices, period) ==
    IF Len(prices) < period + 1
    THEN Rat(50)
    ELSE LET deltas == Diff(prices)
             gains == [i \in DOMAIN deltas |-> IF deltas[i] > 0 THEN deltas[i] ELSE 0]
             losses == [i \in DOMAIN deltas |-> IF deltas[i] < 0 THEN -deltas[i] ELSE 0]
             avg_gain == Mean(LastN(gains, period))
             avg_loss == Mean(LastN(losses, period))
         IN  IF avg_loss = Rat(0)
             THEN Rat(100)
             ELSE LET rs == RDiv(avg_gain, avg_loss)
                  IN  RSub(Rat(100), RDiv(Rat(100), RAdd(Rat(1), rs)))

\* seeded fault: averages the whole series instead of the final `period` closes
calculate_sma_all(prices, period) ==
    IF Len(prices) < period
    THEN IF prices # <<>> THEN Rat(prices[Len(prices)]) ELSE Rat(0)
    ELSE Mean(prices)

calculate_sma(prices, period) ==
    IF Len(prices) < period
    THEN IF prices # <<>> THEN Rat(prices[Len(prices)]) ELSE Rat(0)
    ELSE Mean(LastN(prices, period))

(* ---------------- Python values ---------------------------------------- *)
\* an optional number: None is [has |-> FALSE, val |-> 0]
None == [has |-> FALSE, val |-> 0]
Some(n) == [has |-> TRUE, val |-> n]
\* Python truthiness of an optional number: None and 0 are falsy
Truthy(v) == v.has /\ v.val # 0

(* ---------------- collaborator responses ------------------------------- *)
Closes == 1..MaxClose

\* all sequences over S of length at most n
SeqsUpTo(S, n) == UNION {[1..k -> S] : k \in 0..n}

\* lengths of the flat lead of a fetched series: around both periods
LeadLens ==
    {0, RSI_PERIOD - 1, RSI_PERIOD, SMA_PERIOD - 2, SMA_PERIOD - 1,
     SMA_PERIOD, SMA_PERIOD + 1}

\* what get_bars can do: raise, or return the closes of the bars (maybe none)
BarsOutcomes ==
    {[kind |-> "raise", closes |-> <<>>]} \cup
    {[kind |-> "bars", closes |-> [i \in 1..n |-> b] \o t] :
        <<b, n, t>> \in Closes \X LeadLens \X SeqsUpTo(Closes, MaxTail)}

\* what get_latest_quote("VIX") can do: raise, return None, or a quote
VixLevels == {None, Some(0), Some(VIX_THRESHOLD), Some(VIX_THRESHOLD + 1)}
VixOutcomes ==
    {[kind |-> "raise", last_price |-> None],
     [kind |-> "none", last_price |-> None]} \cup
    {[kind |-> "quote", last_price |-> v] : v \in VixLevels}

(* ---------------- get_historical_closes -------------------------------- *)
get_historical_closes(bars) ==
    IF bars.kind = "raise" THEN <<>> ELSE bars.closes

(* ---------------- Market risk gate ------------------------------------- *)
\* the benchmark check of is_market_risky (lines 89-94)
spy_overextended(bars) ==
    LET spy_closes == get_historical_closes(bars)
    IN  /\ spy_closes # <<>>
        /\ RLt(Rat(RSI_THRESHOLD), calculate_rsi(spy_closes, RSI_PERIOD))

\* seeded fault: the volatility check fails closed (an exception pauses buying)
vix_elevated_closed(vix) ==
    IF vix.kind = "raise"
    THEN TRUE
    ELSE LET vix_level == IF vix.kind = "quote" THEN vix.last_price ELSE Some(0)
         IN  IF ~vix_level.has THEN TRUE ELSE vix_level.val > VIX_THRESHOLD

\* the volatility check of is_market_risky (lines 96-103); comparing None
\* with a number raises, and the bare except swallows it
vix_elevated(vix) ==
    IF vix.kind = "raise"
    THEN FALSE
    ELSE LET vix_level == IF vix.kind = "quote" THEN vix.last_price ELSE Some(0)
         IN  IF ~vix_level.has THEN FALSE ELSE vix_level.val > VIX_THRESHOLD

is_market_risky(bars, vix) ==
    IF spy_overextended(bars) THEN TRUE
    ELSE IF vix_elevated(vix) THEN TRUE
    ELSE FALSE

(* ---------------- Trend gate ------------------------------------------- *)
\* seeded fault: the comparison with the SMA is not strict
is_in_uptrend_ge(bars) ==
    LET closes == get_historical_closes(bars)
    IN  IF closes = <<>> \/ Len(closes) < SMA_PERIOD
        THEN FALSE
        ELSE LET current_price == closes[Len(closes)]
                 sma == calculate_sma(closes, SMA_PERIOD)
             IN  RLe(sma, Rat(current_price))

is_in_uptrend(bars) ==
    LET closes == get_historical_closes(bars)
    IN  IF closes = <<>> \/ Len(closes) < SMA_PERIOD
        THEN FALSE
        ELSE LET current_price == closes[Len(closes)]
                 sma == calculate_sma(closes, SMA_PERIOD)
             IN  RLt(sma, Rat(current_price))

(* ---------------- quotes and orders ------------------------------------ *)
\* values a price field of a quote can hold: absent, zero, negative, and
\* prices below and above the budget
PriceVals == {None, Some(0), Some(-1), Some(45), Some(150)}

NoQuote == [kind |-> "unset", last_price |-> None, ask_price |-> None, bid_price |-> None]

\* what get_latest_quote(symbol) can do: raise, return None, or a quote
QuoteOutcomes ==
    {[kind |-> "raise", last_price |-> None, ask_price |-> None, bid_price |-> None],
     [kind |-> "none", last_price |-> None, ask_price |-> None, bid_price |-> None]} \cup
    {[kind |-> "quote", last_price |-> l, ask_price |-> a, bid_price |-> b] :
        <<l, a, b>> \in PriceVals \X PriceVals \X PriceVals}

\* what execution.order can do: return an order handle, return None, raise
OrderOutcomes == {"handle", "none", "raise"}

\* what initialize_client can do
SetupOutcomes == {"ok", "raise"}

\* quote.last_price or quote.ask_price or quote.bid_price (line 165)
effective_price(q) ==
    IF Truthy(q.last_price) THEN q.last_price
    ELSE IF Truthy(q.ask_price) THEN q.ask_price
    ELSE q.bid_price

\* not current_price or current_price <= 0 (line 166)
invalid_price(p) == ~Truthy(p) \/ p.val <= 0

\* seeded fault: the quotient is rounded up
share_count_ceil(p) == (DCA_AMOUNT + p - 1) \div p

\* int(DCA_AMOUNT / current_price) for a valid price (line 170)
share_count(p) == DCA_AMOUNT \div p

\* responses of get_bars for a symbol of the universe inside run(): a failed
\* fetch, no bars, a flat series (price = SMA) and a series ending in a rise
SymbolBars ==
    {[kind |-> "raise", closes |-> <<>>],
     [kind |-> "bars", closes |-> <<>>],
     [kind |-> "bars", closes |-> [i \in 1..SMA_PERIOD |-> 1]],
     [kind |-> "bars", closes |-> [i \in 1..SMA_PERIOD |-> IF i = SMA_PERIOD THEN 2 ELSE 1]]}

(* ---------------- state ------------------------------------------------ *)
VARIABLES
    pc,             \* position of run(): start, risk, loop, quote, price, size,
                    \* order, halted, crashed, summarized; "idle" outside run()
    idx,            \* index into SYMBOLS of the symbol being analysed
    risky,          \* what is_market_risky returned (FALSE before the call)
    calls,          \* collaborator calls made so far: <<symbol, kind>>
    orders,         \* orders submitted so far, with the collaborator's answer
    orders_placed,  \* the counter of line 151
    out,            \* per-symbol outcome lines printed so far
    quote,          \* local of the loop body
    current_price,  \* local of the loop body
    shares,         \* local of the loop body
    prices,         \* argument of an indicator call
    period,         \* argument of an indicator call
    bars,           \* response of get_bars inside a gate call
    vix,            \* response of get_latest_quote("VIX") inside a gate call
    called,         \* the function that was called ("none" before the call)
    ret             \* its return value

runVars == <<pc, idx, risky, calls, orders, orders_placed, out, quote,
             current_price, shares>>
fnVars == <<prices, period, bars, vix, called, ret>>
vars == <<pc, idx, risky, calls, orders, orders_placed, out, quote,
          current_price, shares, prices, period, bars, vix, called, ret>>

NoBars == [kind |-> "raise", closes |-> <<>>]
NoVix == [kind |-> "raise", last_price |-> None]

RunIdle ==
    /\ pc = "idle" /\ idx = 1 /\ risky = FALSE /\ calls = <<>>
    /\ orders = <<>> /\ orders_placed = 0 /\ out = <<>>
    /\ quote = NoQuote /\ current_price = None /\ shares = 0

FnIdle ==
    /\ prices = <<>> /\ period = 1 /\ bars = NoBars /\ vix = NoVix
    /\ called = "none" /\ ret = Rat(0)

(* ---------------- run() ------------------------------------------------ *)
Init ==
    /\ pc = "start" /\ idx = 1 /\ risky = FALSE /\ calls = <<>>
    /\ orders = <<>> /\ orders_placed = 0 /\ out = <<>>
    /\ quote = NoQuote /\ current_price = None /\ shares = 0
    /\ FnIdle

\* seeded fault: the loop advances by two symbols
NextSymbol_skip(line) ==
    /\ out' = Append(out, line)
    /\ idx' = idx + 2
    /\ pc' = "loop"
    /\ quote' = NoQuote /\ current_price' = None /\ shares' = 0

\* `continue`, or the end of the loop body: on to the next symbol
NextSymbol(line) ==
    /\ out' = Append(out, line)
    /\ idx' = idx + 1
    /\ pc' = "loop"
    /\ quote' = NoQuote /\ current_price' = None /\ shares' = 0

\* line 137: a failure of the connection setup is not caught
Start ==
    /\ pc = "start"
    /\ \E r \in SetupOutcomes :
          pc' = IF r = "ok" THEN "risk" ELSE "crashed"
    /\ UNCHANGED <<idx, risky, calls, orders, orders_placed, out, quote,
                   current_price, shares>>
    /\ UNCHANGED fnVars

\* seeded fault: the early return of line 146 is missing
RiskGate_noreturn ==
    /\ pc = "risk"
    /\ \E b \in BarsOutcomes, v \in VixOutcomes :
          /\ risky' = is_market_risky(b, v)
          /\ calls' = calls \o <<<<"SPY", "bars">>>> \o
                      (IF spy_overextended(b) THEN <<>> ELSE <<<<"VIX", "quote">>>>)
          /\ pc' = "loop"
    /\ orders_placed' = 0
    /\ UNCHANGED <<idx, orders, out, quote, current_price, shares>>
    /\ UNCHANGED fnVars

\* lines 143-151: the risk gate, evaluated once
RiskGate ==
    /\ pc = "risk"
    /\ \E b \in BarsOutcomes, v \in VixOutcomes :
          /\ risky' = is_market_risky(b, v)
          /\ calls' = calls \o <<<<"SPY", "bars">>>> \o
                      (IF spy_overextended(b) THEN <<>> ELSE <<<<"VIX", "quote">>>>)
          /\ pc' = IF is_market_risky(b, v) THEN "halted" ELSE "loop"
    /\ orders_placed' = 0
    /\ UNCHANGED <<idx, orders, out, quote, current_price, shares>>
    /\ UNCHANGED fnVars

\* lines 152-157: the trend gate of the next symbol
CheckUptrend ==
    /\ pc = "loop"
    /\ idx <= Len(SYMBOLS)
    /\ calls' = Append(calls, <<SYMBOLS[idx], "bars">>)
    /\ \E b \in SymbolBars :
          IF ~is_in_uptrend(b)
          THEN NextSymbol("below_sma")
          ELSE /\ pc' = "quote"
               /\ UNCHANGED <<idx, out, quote, current_price, shares>>
    /\ UNCHANGED <<risky, orders, orders_placed>>
    /\ UNCHANGED fnVars

\* seeded fault: an exception of the quote fetch is not caught and leaves run()
GetQuote_uncaught ==
    /\ pc = "quote"
    /\ calls' = Append(calls, <<SYMBOLS[idx], "quote">>)
    /\ \E q \in QuoteOutcomes :
          IF q.kind = "raise"
          THEN /\ out' = Append(out, "error")
               /\ pc' = "crashed"
               /\ UNCHANGED <<idx, quote, current_price, shares>>
          ELSE IF q.kind = "none" THEN NextSymbol("no_quote")
          ELSE /\ quote' = q
               /\ pc' = "price"
               /\ UNCHANGED <<idx, out, current_price, shares>>
    /\ UNCHANGED <<risky, orders, orders_placed>>
    /\ UNCHANGED fnVars

\* lines 160-163 and 191-193: the quote fetch
GetQuote ==
    /\ pc = "quote"
    /\ calls' = Append(calls, <<SYMBOLS[idx], "quote">>)
    /\ \E q \in QuoteOutcomes :
          IF q.kind = "raise" THEN NextSymbol("error")
          ELSE IF q.kind = "none" THEN NextSymbol("no_quote")
          ELSE /\ quote' = q
               /\ pc' = "price"
               /\ UNCHANGED <<idx, out, current_price, shares>>
    /\ UNCHANGED <<risky, orders, orders_placed>>
    /\ UNCHANGED fnVars

\* lines 165-168: the effective price
DerivePrice ==
    /\ pc = "price"
    /\ IF invalid_price(effective_price(quote))
       THEN NextSymbol("invalid_price")
       ELSE /\ current_price' = effective_price(quote)
            /\ pc' = "size"
            /\ UNCHANGED <<idx, out, quote, shares>>
    /\ UNCHANGED <<risky, calls, orders, orders_placed>>
    /\ UNCHANGED fnVars

\* lines 170-175: the order size
SizeOrder ==
    /\ pc = "size"
    /\ IF share_count(current_price.val) <= 0
       THEN NextSymbol("not_enough")
       ELSE /\ shares' = share_count(current_price.val)
            /\ pc' = "order"
            /\ UNCHANGED <<idx, out, quote, current_price>>
    /\ UNCHANGED <<risky, calls, orders, orders_placed>>
    /\ UNCHANGED fnVars

\* seeded fault: the counter is raised whatever the submission returned
SubmitOrder_countall ==
    /\ pc = "order"
    /\ calls' = Append(calls, <<SYMBOLS[idx], "order">>)
    /\ \E r \in OrderOutcomes :
          /\ orders' = Append(orders,
                 [symbol |-> SYMBOLS[idx], qty |-> shares, side |-> "buy",
                  order_type |-> "market", price |-> current_price.val,
                  result |-> r])
          /\ orders_placed' = orders_placed + 1
          /\ NextSymbol(CASE r = "handle" -> "placed"
                          [] r = "none" -> "order_failed"
                          [] OTHER -> "error")
    /\ UNCHANGED risky
    /\ UNCHANGED fnVars

\* lines 177-193: the order submission
SubmitOrder ==
    /\ pc = "order"
    /\ calls' = Append(calls, <<SYMBOLS[idx], "order">>)
    /\ \E r \in OrderOutcomes :
          /\ orders' = Append(orders,
                 [symbol |-> SYMBOLS[idx], qty |-> shares, side |-> "buy",
                  order_type |-> "market", price |-> current_price.val,
                  result |-> r])
          /\ orders_placed' = IF r = "handle" THEN orders_placed + 1 ELSE orders_placed
          /\ NextSymbol(CASE r = "handle" -> "placed"
                          [] r = "none" -> "order_failed"
                          [] OTHER -> "error")
    /\ UNCHANGED risky
    /\ UNCHANGED fnVars

\* lines 195-197: the summary
Summarize ==
    /\ pc = "loop"
    /\ idx > Len(SYMBOLS)
    /\ pc' = "summarized"
    /\ UNCHANGED <<idx, risky, calls, orders, orders_placed, out, quote,
                   current_price, shares>>
    /\ UNCHANGED fnVars

Next ==
    \/ Start
    \/ RiskGate
    \/ CheckUptrend
    \/ GetQuote
    \/ DerivePrice
    \/ SizeOrder
    \/ SubmitOrder
    \/ Summarize

Spec == Init /\ [][Next]_vars

(* ---------------- the indicators, called on their own ------------------ *)
InitInd ==
    /\ RunIdle
    /\ prices \in SeqsUpTo(Closes, MaxLen)
    /\ period \in 1..MaxPeriod
    /\ bars = NoBars /\ vix = NoVix
    /\ called = "none" /\ ret = Rat(0)

CallRsi ==
    /\ called = "none"
    /\ called' = "calculate_rsi"
    /\ ret' = calculate_rsi(prices, period)
    /\ UNCHANGED <<prices, period, bars, vix>>
    /\ UNCHANGED runVars

CallSma ==
    /\ called = "none"
    /\ called' = "calculate_sma"
    /\ ret' = calculate_sma(prices, period)
    /\ UNCHANGED <<prices, period, bars, vix>>
    /\ UNCHANGED runVars

NextInd == CallRsi \/ CallSma

SpecInd == InitInd /\ [][NextInd]_vars

(* ---------------- the gates, called on their own ----------------------- *)
InitGate ==
    /\ RunIdle
    /\ prices = <<>> /\ period = 1
    /\ bars \in BarsOutcomes
    /\ vix \in VixOutcomes
    /\ called = "none" /\ ret = FALSE

CallRisk ==
    /\ called = "none"
    /\ called' = "is_market_risky"
    /\ ret' = is_market_risky(bars, vix)
    /\ UNCHANGED <<prices, period, bars, vix>>
    /\ UNCHANGED runVars

CallTrend ==
    /\ called = "none"
    /\ called' = "is_in_uptrend"
    /\ ret' = is_in_uptrend(bars)
    /\ UNCHANGED <<prices, period, bars, vix>>
    /\ UNCHANGED runVars

NextGate == CallRisk \/ CallTrend

SpecGate == InitGate /\ [][NextGate]_vars

(* ======================================================================= *)
(* Properties                                                              *)
(* ======================================================================= *)

\* the k-th of the trailing n differences of s (k = 1 is the oldest)
TrailingDelta(s, n, k) == s[Len(s) - n + k] - s[Len(s) - n + k - 1]

\* sum of the rises / of the falls among the trailing n differences of s
RECURSIVE RiseSum(_, _, _)
RiseSum(s, n, k) ==
    IF k = 0 THEN 0
    ELSE RiseSum(s, n, k - 1) +
         (IF TrailingDelta(s, n, k) > 0 THEN TrailingDelta(s, n, k) ELSE 0)

RECURSIVE FallSum(_, _, _)
FallSum(s, n, k) ==
    IF k = 0 THEN 0
    ELSE FallSum(s, n, k - 1) +
         (IF TrailingDelta(s, n, k) < 0 THEN -TrailingDelta(s, n, k) ELSE 0)

\* sum of the final n elements of s
RECURSIVE FinalSum(_, _)
FinalSum(s, n) == IF n = 0 THEN 0 ELSE s[Len(s) - n + 1] + FinalSum(s, n - 1)

\* C7: calculate_rsi returns 50 for fewer than period + 1 prices, 100 when
\* the trailing `period` differences hold no loss, and otherwise
\* 100 - 100/(1 + avg_gain/avg_loss) = 100 * gain / (gain + loss) over those
\* differences; the result always lies in [0, 100].
RsiContract ==
    called = "calculate_rsi" =>
        LET G == RiseSum(prices, period, period)
            L == FallSum(prices, period, period)
        IN  /\ ret[2] > 0 /\ 0 <= ret[1] /\ ret[1] <= 100 * ret[2]
            /\ IF Len(prices) < period + 1 THEN ret = <<50, 1>>
               ELSE IF L = 0 THEN ret = <<100, 1>>
               ELSE ret[1] * (G + L) = 100 * G * ret[2]

\* a call with enough prices, gains and losses: the general formula applies
RsiMixedWitness ==
    /\ called = "calculate_rsi"
    /\ Len(prices) >= period + 1
    /\ ret # <<50, 1>> /\ ret # <<100, 1>> /\ ret # <<0, 1>>

\* C8: calculate_sma returns the mean of the final `period` prices when there
\* are at least `period` of them, the most recent price for a shorter
\* non-empty sequence, and 0 for an empty one.
SmaContract ==
    called = "calculate_sma" =>
        /\ ret[2] > 0
        /\ IF Len(prices) >= period
           THEN ret[1] * period = FinalSum(prices, period) * ret[2]
           ELSE IF prices # <<>> THEN ret = <<prices[Len(prices)], 1>>
           ELSE ret = <<0, 1>>

\* a call on more prices than the period, where the window matters
SmaWindowWitness ==
    /\ called = "calculate_sma"
    /\ Len(prices) > period
    /\ ret[1] * Len(prices) # FinalSum(prices, Len(prices)) * ret[2]

\* C3: is_in_uptrend is true iff the fetch returned at least 20 closes and the
\* last close is strictly above the mean of the last 20; a short or empty
\* series, a last close at or below the mean, and a failed fetch give false.
TrendContract ==
    called = "is_in_uptrend" =>
        (ret = TRUE <=>
            /\ bars.kind = "bars"
            /\ Len(bars.closes) >= SMA_PERIOD
            /\ SMA_PERIOD * bars.closes[Len(bars.closes)]
                   > FinalSum(bars.closes, SMA_PERIOD))

\* an uptrend found on a series longer than the SMA period
TrendTrueWitness ==
    /\ called = "is_in_uptrend"
    /\ ret = TRUE
    /\ Len(bars.closes) > SMA_PERIOD

\* the benchmark RSI(14) of the fetched closes exceeds 75
RsiAbove(b) ==
    /\ b.kind = "bars"
    /\ Len(b.closes) >= RSI_PERIOD + 1
    /\ LET G == RiseSum(b.closes, RSI_PERIOD, RSI_PERIOD)
           L == FallSum(b.closes, RSI_PERIOD, RSI_PERIOD)
       IN  L = 0 \/ 100 * G > RSI_THRESHOLD * (G + L)

\* the volatility index quote was fetched and its price exceeds 25
VixAbove(v) ==
    v.kind = "quote" /\ v.last_price.has /\ v.last_price.val > VIX_THRESHOLD

\* C2: is_market_risky is true exactly when the benchmark RSI(14) exceeds 75
\* or the volatility index price exceeds 25; in particular it is false when
\* the RSI is at most 75 and the volatility quote fetch throws.
RiskContract ==
    called = "is_market_risky" =>
        /\ ret = TRUE <=> (RsiAbove(bars) \/ VixAbove(vix))
        /\ (~RsiAbove(bars) /\ vix.kind = "raise") => ret = FALSE

\* the gate paused buying on the volatility index alone
RiskVixOnlyWitness ==
    /\ called = "is_market_risky"
    /\ ret = TRUE
    /\ ~RsiAbove(bars)
    /\ Len(bars.closes) > RSI_PERIOD

Universe == {SYMBOLS[i] : i \in DOMAIN SYMBOLS}

\* C1: when is_market_risky returned true the run has ended at once: no
\* history fetch, quote fetch or order submission happened for any symbol of
\* the universe, and no order was submitted.
RiskHalts ==
    risky =>
        /\ pc = "halted"
        /\ orders = <<>>
        /\ out = <<>>
        /\ \A i \in DOMAIN calls : calls[i][1] \notin Universe

\* a run the risk gate halted, after its collaborator calls
HaltedWitness == pc = "halted" /\ risky /\ calls # <<>>

\* floor(a / p) for integers a >= 0, p >= 1
FloorDiv(a, p) == CHOOSE k \in 0..a : k * p <= a /\ a < (k + 1) * p

\* every submitted order is a market buy of floor(100 / p) >= 1 shares whose
\* cost stays within the budget
OrdersWithinBudget ==
    \A i \in DOMAIN orders :
        /\ orders[i].side = "buy" /\ orders[i].order_type = "market"
        /\ orders[i].price > 0
        /\ orders[i].qty = FloorDiv(DCA_AMOUNT, orders[i].price)
        /\ orders[i].qty >= 1
        /\ orders[i].qty * orders[i].price <= DCA_AMOUNT

SizingStep ==
    /\ pc = "size" =>
          /\ current_price.has /\ current_price.val > 0
          /\ IF FloorDiv(DCA_AMOUNT, current_price.val) >= 1
             THEN /\ pc' = "order" /\ idx' = idx
                  /\ shares' = FloorDiv(DCA_AMOUNT, current_price.val)
                  /\ current_price' = current_price
             ELSE /\ pc' = "loop" /\ idx' = idx + 1
                  /\ out' = Append(out, "not_enough")
                  /\ calls' = calls
    /\ pc = "order" =>
          /\ Len(orders') = Len(orders) + 1
          /\ orders'[Len(orders')].symbol = SYMBOLS[idx]
          /\ orders'[Len(orders')].qty = shares
          /\ orders'[Len(orders')].price = current_price.val
          /\ calls' = Append(calls, <<SYMBOLS[idx], "order">>)
    /\ pc # "order" => orders' = orders
    /\ OrdersWithinBudget'

\* C4: for a symbol with a positive effective price p the quantity is
\* floor(100 / p); an order for exactly that quantity is submitted when it is
\* at least 1 and none when it is 0; no submitted order has quantity 0 or a
\* cost above the 100 dollar budget.
SizingContract == [][SizingStep]_vars

\* scenario A (p = 45: 2 shares) and scenario B (p = 150: skipped) in one run
SizingWitness ==
    /\ \E i \in DOMAIN orders : orders[i].price = 45 /\ orders[i].qty = 2
    /\ \E k \in DOMAIN out : out[k] = "not_enough"

Positive(v) == v.has /\ v.val > 0
HasPositive(q) ==
    Positive(q.last_price) \/ Positive(q.ask_price) \/ Positive(q.bid_price)
FirstPositive(q) ==
    IF Positive(q.last_price) THEN q.last_price
    ELSE IF Positive(q.ask_price) THEN q.ask_price
    ELSE q.bid_price

\* C5: the effective price of a fetched quote is the first of last, ask, bid
\* that is positive, and the symbol is skipped for lack of a price only when
\* none of the three is positive.
PriceFallbackClaim ==
    [][pc = "price" =>
          IF HasPositive(quote)
          THEN pc' = "size" /\ current_price' = FirstPositive(quote)
          ELSE pc' = "loop" /\ out' = Append(out, "invalid_price")]_vars

Running == {"loop", "quote", "price", "size", "order", "summarized"}

ErrorIsolated ==
    \A k \in DOMAIN out :
        out[k] = "error" =>
            /\ pc \in Running
            /\ idx > k
            /\ \A i \in DOMAIN orders :
                  orders[i].symbol = SYMBOLS[k] => orders[i].result # "handle"
            /\ pc = "summarized" =>
                  \A j \in (k + 1)..Len(SYMBOLS) :
                      \E i \in DOMAIN calls : calls[i] = <<SYMBOLS[j], "bars">>

ErrorStep ==
    (out' # out /\ out'[Len(out')] = "error") =>
        /\ pc \in {"quote", "order"}
        /\ orders_placed' = orders_placed
        /\ pc' = "loop" /\ idx' = idx + 1

\* C6: an exception of the quote fetch or of the order submission of one
\* symbol stays inside that symbol's iteration: no order is counted for the
\* symbol, run() goes on, and every later symbol is evaluated by the trend gate.
ErrorIsolation == []ErrorIsolated /\ [][ErrorStep]_vars

\* the first symbol failed, the second was bought, and the run completed
ErrorThenBuyWitness ==
    /\ pc = "summarized"
    /\ out[1] = "error" /\ out[2] = "placed"

\* number of trend-gate fetches for universe symbols among the first i calls
TrendFetches(i) ==
    Cardinality({j \in 1..i : calls[j][1] \in Universe /\ calls[j][2] = "bars"})

OrderCalls == {i \in DOMAIN calls : calls[i][2] = "order"}

\* C9: symbols are processed in universe order, each once; a symbol's calls
\* are history, quote, order in that order and finish before the next
\* symbol's; an order follows its symbol's trend gate and quote fetch; at most
\* one order per symbol.
CallOrder ==
    /\ \A i \in DOMAIN calls :
          /\ (calls[i][1] \in Universe /\ calls[i][2] = "bars") =>
                /\ TrendFetches(i) <= Len(SYMBOLS)
                /\ calls[i][1] = SYMBOLS[TrendFetches(i)]
          /\ (calls[i][1] \in Universe /\ calls[i][2] = "quote") =>
                i > 1 /\ calls[i - 1] = <<calls[i][1], "bars">>
          /\ calls[i][2] = "order" =>
                /\ calls[i][1] \in Universe
                /\ i > 2
                /\ calls[i - 1] = <<calls[i][1], "quote">>
                /\ calls[i - 2] = <<calls[i][1], "bars">>
    /\ Len(orders) = Cardinality(OrderCalls)
    /\ \A i, j \in DOMAIN orders : orders[i].symbol = orders[j].symbol => i = j
    /\ pc \in {"quote", "price", "size", "order"} =>
          /\ TrendFetches(Len(calls)) = idx
          /\ calls[Len(calls)][1] = SYMBOLS[idx]
    /\ pc = "loop" => TrendFetches(Len(calls)) = idx - 1
    /\ pc = "summarized" => TrendFetches(Len(calls)) = Len(SYMBOLS)

\* a completed run that bought two symbols
TwoOrdersWitness == pc = "summarized" /\ Len(orders) >= 2

Handles == {i \in DOMAIN orders : orders[i].result = "handle"}

CountInv ==
    /\ orders_placed = Cardinality(Handles)
    /\ 0 <= orders_placed
    /\ orders_placed <= Len(orders)
    /\ Len(orders) <= Len(SYMBOLS)

\* steps run() can still take: it falls with every step and is 0 at the end
StepsLeft ==
    CASE pc = "start" -> 5 * Len(SYMBOLS) + 8
      [] pc = "risk" -> 5 * Len(SYMBOLS) + 7
      [] pc = "loop" -> 5 * (Len(SYMBOLS) - idx) + 6
      [] pc = "quote" -> 5 * (Len(SYMBOLS) - idx) + 5
      [] pc = "price" -> 5 * (Len(SYMBOLS) - idx) + 4
      [] pc = "size" -> 5 * (Len(SYMBOLS) - idx) + 3
      [] pc = "order" -> 5 * (Len(SYMBOLS) - idx) + 2
      [] OTHER -> 0

\* a run inside the loop can always take a step, and stays on the way to
\* the summary
LoopProgress ==
    /\ pc \in Running \ {"summarized"} => ENABLED Next
    /\ pc \in Running => StepsLeft >= 0 /\ (StepsLeft = 0 <=> pc = "summarized")

LoopStep ==
    /\ StepsLeft' < StepsLeft
    /\ pc \in Running => pc' \in Running

\* C10: orders_placed always equals the number of submissions that returned
\* an order handle (a null answer or an exception does not count), so
\* 0 <= orders_placed <= submitted orders <= universe size; and a run that
\* entered the loop reaches the summary whatever the per-symbol outcomes:
\* it can always step, every step lowers StepsLeft, and it can only end at
\* the summary.
CountContract == []CountInv /\ []LoopProgress /\ [][LoopStep]_vars

\* a completed run with a counted, a null and a failed submission
CountWitness ==
    /\ pc = "summarized"
    /\ orders_placed = 1
    /\ Len(orders) = 3
    /\ \E i \in DOMAIN orders : orders[i].result = "none"
    /\ \E i \in DOMAIN orders : orders[i].result = "raise"

====
